---- MODULE Spec2Model ----
(***************************************************************************)
(* Model of the openjscad command line front-end (src/js/future-cli.js):   *)
(* parseArgs, determineOutputNameAndFormat and the main code that reads,   *)
(* converts and writes.                                                    *)
(*                                                                         *)
(* A JavaScript string is a sequence of one-character strings, so that the *)
(* regular expressions of the source are modelled by what they match.      *)
(* The JavaScript value undefined is the value Undefined below, which is   *)
(* no string.                                                              *)
(***************************************************************************)
EXTENDS Integers, Sequences, FiniteSets, TLC

VARIABLES
    args,          \* process.argv.splice(2)
    pc,            \* position of the main code
    i,             \* loop index of parseArgs (1-based)
    inputFile,     \* parseArgs local, then the module-level binding
    inputFormat,
    outputFile,
    outputFormat,
    gMainParam,    \* object: a function from names to values
    request,       \* the object parseArgs returned (NoRequest before)
    output,        \* the object determineOutputNameAndFormat returned
    err,           \* why the process ended early ("none" while it has not)
    effects,       \* the I/O steps performed so far, in order
    statKind       \* what fs.statSync last saw ("file", "dir", "none")

vars == <<args, pc, i, inputFile, inputFormat, outputFile, outputFormat,
          gMainParam, request, output, err, effects, statKind>>

--------------------------------------------------------------------------
(* JavaScript values *)

Undefined == <<"<undefined>">>

\* the value null, which the code compares with at line 157
Null == <<"<null>">>

\* !v for v a string or undefined
Falsy(v) == v = Undefined \/ v = <<>>

--------------------------------------------------------------------------
(* Character classes of the regular expressions *)

LowerCase == <<"a","b","c","d","e","f","g","h","i","j","k","l","m",
               "n","o","p","q","r","s","t","u","v","w","x","y","z">>

UpperCase == <<"A","B","C","D","E","F","G","H","I","J","K","L","M",
               "N","O","P","Q","R","S","T","U","V","W","X","Y","Z">>

Digits == {"0","1","2","3","4","5","6","7","8","9"}

\* \w
WordChars == {LowerCase[k] : k \in DOMAIN LowerCase}
             \cup {UpperCase[k] : k \in DOMAIN UpperCase}
             \cup Digits \cup {"_"}

\* the characters `.` does not match
LineTerminators == {"\n", "\r"}

\* the characters \S does not match
Whitespace == {" ", "\t"} \cup LineTerminators

\* one character under the i flag
LowerChar(c) ==
    IF \E k \in DOMAIN UpperCase : UpperCase[k] = c
    THEN LowerCase[CHOOSE k \in DOMAIN UpperCase : UpperCase[k] = c]
    ELSE c

\* a string under the i flag
Lowered(s) == [k \in DOMAIN s |-> LowerChar(s[k])]

\* s.substring(from - 1), 1-based
From(s, from) == SubSeq(s, from, Len(s))

\* the index of the last "." of s, 0 when it has none
LastDot(s) ==
    IF \E k \in DOMAIN s : s[k] = "."
    THEN CHOOSE k \in DOMAIN s : s[k] = "." /\ \A j \in (k+1)..Len(s) : s[j] # "."
    ELSE 0

--------------------------------------------------------------------------
(* Format tokens *)

jscad == <<"j","s","c","a","d">>
js    == <<"j","s">>
scad  == <<"s","c","a","d">>
stl   == <<"s","t","l">>
stla  == <<"s","t","l","a">>
stlb  == <<"s","t","l","b">>
amf   == <<"a","m","f">>
obj   == <<"o","b","j">>
gcode == <<"g","c","o","d","e">>
dxf   == <<"d","x","f">>
svg   == <<"s","v","g">>
json  == <<"j","s","o","n">>

\* the alternation (jscad|js|scad|stl|amf|obj|gcode|svg|json) of line 140
InputExtensions == {jscad, js, scad, stl, amf, obj, gcode, svg, json}

\* the alternation (jscad|js|stl|amf|dxf|svg) of line 172
OutputExtensions == {jscad, js, stl, amf, dxf, svg}

\* the alternation (jscad|js|stl|stla|stlb|amf|dxf|svg) of line 177, in order
OutputFormatAlternatives == <<jscad, js, stl, stla, stlb, amf, dxf, svg>>

--------------------------------------------------------------------------
(* The regular expressions of parseArgs (lines 127-147) *)

\* the last index k >= from - 1 with s[from..k] all \w: the greedy (\w+)
WordRun(s, from) ==
    CHOOSE k \in (from - 1)..Len(s) :
        /\ \A j \in from..k : s[j] \in WordChars
        /\ (k = Len(s) \/ s[k + 1] \notin WordChars)

\* args[i].match(/^-o(\S.+)/): "-o", one non-blank, one or more of `.`;
\* there is no $, so only the first character of `.+` is constrained
MatchOConcat(t) ==
    /\ Len(t) >= 4
    /\ t[1] = "-" /\ t[2] = "o"
    /\ t[3] \notin Whitespace
    /\ t[4] \notin LineTerminators

\* outputFile.replace(/^\-o(\S+)$/, '$1'): the whole rest must be non-blank,
\* otherwise the string is left as it is
StripO(t) ==
    IF /\ Len(t) >= 3
       /\ t[1] = "-" /\ t[2] = "o"
       /\ \A k \in 3..Len(t) : t[k] \notin Whitespace
    THEN From(t, 3)
    ELSE t

\* args[i].match(/^--(\w+)=(.*)/): \w+ is greedy and "=" is no \w, so the
\* name is the whole run of \w after "--" and "=" must follow it
MatchParamEq(t) ==
    /\ Len(t) >= 4
    /\ t[1] = "-" /\ t[2] = "-"
    /\ WordRun(t, 3) >= 3
    /\ WordRun(t, 3) < Len(t)
    /\ t[WordRun(t, 3) + 1] = "="

\* RegExp.$1 after MatchParamEq
ParamEqName(t) == SubSeq(t, 3, WordRun(t, 3))

\* RegExp.$2 after MatchParamEq: (.*) stops before the first line terminator
ParamEqValue(t) ==
    LET rest == From(t, WordRun(t, 3) + 2)
        stop == IF \E k \in DOMAIN rest : rest[k] \in LineTerminators
                THEN (CHOOSE k \in DOMAIN rest :
                         /\ rest[k] \in LineTerminators
                         /\ \A j \in 1..(k-1) : rest[j] \notin LineTerminators) - 1
                ELSE Len(rest)
    IN SubSeq(rest, 1, stop)

\* args[i].match(/^--(\w+)$/)
MatchParam(t) ==
    /\ Len(t) >= 3
    /\ t[1] = "-" /\ t[2] = "-"
    /\ WordRun(t, 3) = Len(t)

\* RegExp.$1 after MatchParam
ParamName(t) == From(t, 3)

\* args[i].match(/.+\.(jscad|js|scad|stl|amf|obj|gcode|svg|json)$/i): no
\* extension holds a ".", so the "." matched is the last one; `.+` needs one
\* character that is no line terminator right before it
MatchInput(t) ==
    /\ LastDot(t) >= 2
    /\ t[LastDot(t) - 1] \notin LineTerminators
    /\ Lowered(From(t, LastDot(t) + 1)) \in InputExtensions

\* RegExp.$1 after MatchInput: the extension as it is spelled in the token
InputCapture(t) == From(t, LastDot(t) + 1)

\* args[i].match(/^-v$/)
MatchV(t) == t = <<"-", "v">>

\* args[++i] when the index is past the end is undefined
ArgAt(a, k) == IF k \in DOMAIN a THEN a[k] ELSE Undefined

\* gMainParam[name] = value
SetParam(g, name, value) ==
    [n \in DOMAIN g \cup {name} |-> IF n = name THEN value ELSE g[n]]

\* lines 159-161 left out
DefaultOutputFormat_None(of, ofile) == of

\* lines 159-161: if (!outputFormat && !outputFile) outputFormat = 'stla'
DefaultOutputFormat(of, ofile) ==
    IF Falsy(of) /\ Falsy(ofile) THEN stla ELSE of

--------------------------------------------------------------------------
(* determineOutputNameAndFormat (lines 171-189) *)

\* line 172 as if its expression had the i flag
MatchOutputFile_IgnoreCase(f) ==
    /\ LastDot(f) >= 1
    /\ Lowered(From(f, LastDot(f) + 1)) \in OutputExtensions

\* outputFile.match(/\.(jscad|js|stl|amf|dxf|svg)$/): case-sensitive, and the
\* "." matched is the last one
MatchOutputFile(f) ==
    /\ LastDot(f) >= 1
    /\ From(f, LastDot(f) + 1) \in OutputExtensions

\* RegExp.$1 after MatchOutputFile
OutputFileCapture(f) == From(f, LastDot(f) + 1)

\* alternative a of line 177 matches s at position p, under the i flag
AlternativeAt(s, p, a) ==
    /\ p + Len(OutputFormatAlternatives[a]) - 1 <= Len(s)
    /\ Lowered(SubSeq(s, p, p + Len(OutputFormatAlternatives[a]) - 1))
           = OutputFormatAlternatives[a]

\* outputFormat.match(/(jscad|js|stl|stla|stlb|amf|dxf|svg)/i): not anchored,
\* so it succeeds when an alternative occurs anywhere in the string
MatchOutputFormat(s) ==
    \E p \in DOMAIN s : \E a \in DOMAIN OutputFormatAlternatives :
        AlternativeAt(s, p, a)

\* RegExp.$1 after MatchOutputFormat: the leftmost position, and there the
\* first alternative in the order they are written
OutputFormatCapture(s) ==
    LET p == CHOOSE q \in DOMAIN s :
                 /\ \E a \in DOMAIN OutputFormatAlternatives : AlternativeAt(s, q, a)
                 /\ \A r \in 1..(q-1) : \A a \in DOMAIN OutputFormatAlternatives :
                        ~AlternativeAt(s, r, a)
        a == CHOOSE b \in DOMAIN OutputFormatAlternatives :
                 /\ AlternativeAt(s, p, b)
                 /\ \A c \in 1..(b-1) : ~AlternativeAt(s, p, c)
    IN SubSeq(s, p, p + Len(OutputFormatAlternatives[a]) - 1)

\* ext.replace(/stl[ab]/, 'stl'): the first "stla" or "stlb", case-sensitive
DropAB(ext) ==
    IF \E p \in 1..(Len(ext) - 3) : SubSeq(ext, p, p + 3) \in {stla, stlb}
    THEN LET p == CHOOSE q \in 1..(Len(ext) - 3) :
                      /\ SubSeq(ext, q, q + 3) \in {stla, stlb}
                      /\ \A r \in 1..(q-1) : SubSeq(ext, r, r + 3) \notin {stla, stlb}
         IN SubSeq(ext, 1, p + 2) \o From(ext, p + 4)
    ELSE ext

\* outputFile.replace(/\.([^\.]+)$/, '.' + ext): the last ".", when at least
\* one character follows it
ComposeOutputFile(f, ext) ==
    IF LastDot(f) >= 1 /\ LastDot(f) < Len(f)
    THEN SubSeq(f, 1, LastDot(f)) \o ext
    ELSE f

\* line 172 without its test of outputFormat
OutputFileDecides_IgnoringFormat(of, ofile) ==
    ~Falsy(ofile) /\ MatchOutputFile(ofile)

\* the condition of line 172
OutputFileDecides(of, ofile) ==
    Falsy(of) /\ ~Falsy(ofile) /\ MatchOutputFile(ofile)

\* lines 178-183 returning the extension as the format
ComposedOutput_FormatFromExt(of, ifile) ==
    [kind |-> "return",
     outputFormat |-> DropAB(OutputFormatCapture(of)),
     outputFile |-> ComposeOutputFile(ifile, DropAB(OutputFormatCapture(of)))]

\* lines 178-183 and 188 when outputFile is not set: the name is composed
\* from the module-level inputFile, and outputFormat is returned as given
ComposedOutput(of, ifile) ==
    [kind |-> "return",
     outputFormat |-> of,
     outputFile |-> ComposeOutputFile(ifile, DropAB(OutputFormatCapture(of)))]

\* The function as a whole, for the module-level inputFile it reads (line
\* 181).  kind is "return", or the way the call ends the process.
determineOutputNameAndFormat(of, ofile, ifile) ==
    IF OutputFileDecides(of, ofile)
    THEN [kind |-> "return", outputFormat |-> OutputFileCapture(ofile),
          outputFile |-> ofile]
    ELSE IF Falsy(of) /\ ~Falsy(ofile)
    THEN [kind |-> "invalidOutputFile", outputFormat |-> of, outputFile |-> ofile]
    ELSE IF of = Undefined
    THEN \* undefined.match(...) throws
         [kind |-> "TypeError", outputFormat |-> of, outputFile |-> ofile]
    ELSE IF MatchOutputFormat(of)
    THEN IF ~Falsy(ofile)
         THEN [kind |-> "return", outputFormat |-> of, outputFile |-> ofile]
         ELSE IF ifile = Undefined
         THEN \* undefined.replace(...) throws
              [kind |-> "TypeError", outputFormat |-> of, outputFile |-> ofile]
         ELSE ComposedOutput(of, ifile)
    ELSE [kind |-> "invalidOutputFormat", outputFormat |-> of, outputFile |-> ofile]

--------------------------------------------------------------------------
(* Command line tokens the model draws argument lists from *)

T_of == <<"-","o","f">>
T_o == <<"-","o">>
T_v == <<"-","v">>
T_x3d == <<"x","3","d">>
T_5 == <<"5">>
T_empty == <<>>
T_out_unknown == <<"o","u","t",".","u","n","k","n","o","w","n">>
T_o_amf == <<"o",".","a","m","f">>
T_oa == <<"-","o","a">>
T_oa_b == <<"-","o","a"," ","b">>
T_oo_js == <<"-","o","o",".","j","s">>
T_depth_3 == <<"-","-","d","e","p","t","h","=","3">>
T_width == <<"-","-","w","i","d","t","h">>
T_t_a_nl_b == <<"-","-","t","=","a","\n","b">>
T_model_jscad == <<"m","o","d","e","l",".","j","s","c","a","d">>
T_m_STL == <<"m",".","S","T","L">>

Tokens == {T_of, T_o, T_v, stlb, T_x3d, T_5, T_empty, T_out_unknown, T_o_amf,
           T_oa, T_oa_b, T_oo_js, T_depth_3, T_width, T_t_a_nl_b,
           T_model_jscad, T_m_STL}

\* the longest argument list
MaxArgs == 3

ArgLists == UNION {[1..n -> Tokens] : n \in 0..MaxArgs}

--------------------------------------------------------------------------
(* State *)

\* request before parseArgs has returned
NoRequest == [kind |-> "none"]

\* output before determineOutputNameAndFormat has returned
NoOutput == [kind |-> "none"]

\* let gMainParam = {}
EmptyObject == <<>>

\* the keys makeInputFormatHandlers registers: one handler per input format
InputFormatHandlerKeys == InputExtensions

Init ==
    /\ args \in ArgLists
    /\ pc = "start"
    /\ i = 0
    /\ inputFile = Undefined
    /\ inputFormat = Undefined
    /\ outputFile = Undefined
    /\ outputFormat = Undefined
    /\ gMainParam = EmptyObject
    /\ request = NoRequest
    /\ output = NoOutput
    /\ err = "none"
    /\ effects = <<>>
    /\ statKind = "unseen"

\* process.exit(1), or an exception no one catches: the process ends here
Exit(e) ==
    /\ pc' = "exit"
    /\ err' = e

--------------------------------------------------------------------------
(* parseArgs (lines 105-169) *)

\* The branch of the if-chain of lines 127-154 a token takes: the first
\* condition that holds.  The branch of line 138 repeats the condition of
\* line 136 and is never taken.
Rule(t) ==
    IF t = T_of THEN "of"
    ELSE IF MatchOConcat(t) THEN "oConcat"
    ELSE IF t = T_o THEN "o"
    ELSE IF MatchParamEq(t) THEN "paramEq"
    ELSE IF MatchParam(t) THEN "param"
    ELSE IF MatchInput(t) THEN "input"
    ELSE IF MatchV(t) THEN "v"
    ELSE "invalid"

\* a token is being scanned by the loop of line 126
Scanning == pc = "scan" /\ i <= Len(args)

\* lines 112-118
ParseUsage ==
    /\ pc = "start"
    /\ Len(args) < 1
    /\ Exit("usage")
    /\ UNCHANGED <<args, i, inputFile, inputFormat, outputFile, outputFormat,
                   gMainParam, request, output, effects, statKind>>

\* lines 120-126: the locals are declared and the loop starts
ParseEnter ==
    /\ pc = "start"
    /\ Len(args) >= 1
    /\ pc' = "scan"
    /\ i' = 1
    /\ UNCHANGED <<args, inputFile, inputFormat, outputFile, outputFormat,
                   gMainParam, request, output, err, effects, statKind>>

\* lines 127-128
ScanOf ==
    /\ Scanning
    /\ Rule(args[i]) = "of"
    /\ outputFormat' = ArgAt(args, i + 1)
    /\ i' = i + 2
    /\ UNCHANGED <<args, pc, inputFile, inputFormat, outputFile, gMainParam,
                   request, output, err, effects, statKind>>

\* lines 129-131
ScanOConcat ==
    /\ Scanning
    /\ Rule(args[i]) = "oConcat"
    /\ outputFile' = StripO(args[i])
    /\ i' = i + 1
    /\ UNCHANGED <<args, pc, inputFile, inputFormat, outputFormat, gMainParam,
                   request, output, err, effects, statKind>>

\* lines 132-133
ScanO ==
    /\ Scanning
    /\ Rule(args[i]) = "o"
    /\ outputFile' = ArgAt(args, i + 1)
    /\ i' = i + 2
    /\ UNCHANGED <<args, pc, inputFile, inputFormat, outputFormat, gMainParam,
                   request, output, err, effects, statKind>>

\* lines 134-135
ScanParamEq ==
    /\ Scanning
    /\ Rule(args[i]) = "paramEq"
    /\ gMainParam' = SetParam(gMainParam, ParamEqName(args[i]), ParamEqValue(args[i]))
    /\ i' = i + 1
    /\ UNCHANGED <<args, pc, inputFile, inputFormat, outputFile, outputFormat,
                   request, output, err, effects, statKind>>

\* lines 136-137
ScanParam ==
    /\ Scanning
    /\ Rule(args[i]) = "param"
    /\ gMainParam' = SetParam(gMainParam, ParamName(args[i]), ArgAt(args, i + 1))
    /\ i' = i + 2
    /\ UNCHANGED <<args, pc, inputFile, inputFormat, outputFile, outputFormat,
                   request, output, err, effects, statKind>>

\* lines 140-146.  What fs.statSync finds is the file system's choice: a
\* regular file, something that is no regular file, or nothing (it throws).
ScanInput ==
    /\ Scanning
    /\ Rule(args[i]) = "input"
    /\ inputFile' = args[i]
    /\ inputFormat' = InputCapture(args[i])
    /\ \E kind \in {"file", "dir", "none"} :
          /\ statKind' = kind
          /\ IF kind = "file"
             THEN i' = i + 1 /\ UNCHANGED <<pc, err>>
             ELSE /\ Exit(IF kind = "dir" THEN "cannotOpen" ELSE "ENOENT")
                  /\ UNCHANGED i
    /\ UNCHANGED <<args, outputFile, outputFormat, gMainParam, request, output,
                   effects>>

\* lines 147-149.  openscad is no binding of this file: the call throws a
\* ReferenceError unless a library made it a global.
ScanV ==
    /\ Scanning
    /\ Rule(args[i]) = "v"
    /\ \E isGlobal \in BOOLEAN :
          IF isGlobal
          THEN i' = i + 1 /\ UNCHANGED <<pc, err>>
          ELSE Exit("ReferenceError") /\ UNCHANGED i
    /\ UNCHANGED <<args, inputFile, inputFormat, outputFile, outputFormat,
                   gMainParam, request, output, effects, statKind>>

\* lines 150-154 without the process.exit(1) of line 153
ScanInvalid_NoExit ==
    /\ Scanning
    /\ Rule(args[i]) = "invalid"
    /\ err' = "invalidArgument"
    /\ i' = i + 1
    /\ UNCHANGED <<args, pc, inputFile, inputFormat, outputFile, outputFormat,
                   gMainParam, request, output, effects, statKind>>

\* lines 150-154
ScanInvalid ==
    /\ Scanning
    /\ Rule(args[i]) = "invalid"
    /\ Exit("invalidArgument")
    /\ UNCHANGED <<args, i, inputFile, inputFormat, outputFile, outputFormat,
                   gMainParam, request, output, effects, statKind>>

\* lines 156-169, and the destructuring of line 83.  The test of line 157
\* compares with null; a local that was never assigned is undefined.
ParseReturn ==
    /\ pc = "scan"
    /\ i > Len(args)
    /\ IF inputFile = Null
       THEN /\ Exit("noInput")
            /\ UNCHANGED <<outputFormat, request>>
       ELSE /\ outputFormat' = DefaultOutputFormat(outputFormat, outputFile)
            /\ request' = [kind |-> "request",
                           inputFile |-> inputFile,
                           inputFormat |-> inputFormat,
                           outputFile |-> outputFile,
                           outputFormat |-> outputFormat',
                           gMainParam |-> gMainParam]
            /\ pc' = "parsed"
            /\ UNCHANGED err
    /\ UNCHANGED <<args, i, inputFile, inputFormat, outputFile, gMainParam,
                   output, effects, statKind>>

--------------------------------------------------------------------------
(* main code (lines 83-102) *)

\* inputFile.match(/\.stl$/i) of line 93
MatchStl(f) ==
    /\ Len(f) >= 4
    /\ Lowered(From(f, Len(f) - 3)) = <<".">> \o stl

\* lines 87-91
Resolve ==
    /\ pc = "parsed"
    /\ LET r == determineOutputNameAndFormat(outputFormat, outputFile, inputFile)
       IN IF r.kind = "return"
          THEN /\ output' = [kind |-> "output",
                             outputFormat |-> r.outputFormat,
                             outputFile |-> r.outputFile]
               /\ outputFormat' = r.outputFormat
               /\ outputFile' = r.outputFile
               /\ pc' = "resolved"
               /\ UNCHANGED err
          ELSE /\ Exit(r.kind)
               /\ UNCHANGED <<output, outputFormat, outputFile>>
    /\ UNCHANGED <<args, i, inputFile, inputFormat, gMainParam, request,
                   effects, statKind>>

\* line 93: inputFile.match throws when inputFile is undefined, before
\* fs.readFileSync is called; the read itself may fail
Read ==
    /\ pc = "resolved"
    /\ IF inputFile = Undefined
       THEN Exit("TypeError") /\ UNCHANGED effects
       ELSE \E ok \in BOOLEAN :
               IF ok
               THEN /\ effects' = Append(effects,
                           IF MatchStl(inputFile) THEN "read binary" ELSE "read UTF8")
                    /\ pc' = "read"
                    /\ UNCHANGED err
               ELSE Exit("readError") /\ UNCHANGED effects
    /\ UNCHANGED <<args, i, inputFile, inputFormat, outputFile, outputFormat,
                   gMainParam, request, output, statKind>>

\* line 95: calling a handler that is not registered throws; a handler
\* may throw
Decode ==
    /\ pc = "read"
    /\ IF inputFormat \notin InputFormatHandlerKeys
       THEN Exit("TypeError") /\ UNCHANGED effects
       ELSE \E ok \in BOOLEAN :
               IF ok
               THEN /\ effects' = Append(effects, "decode")
                    /\ pc' = "decoded"
                    /\ UNCHANGED err
               ELSE Exit("decodeError") /\ UNCHANGED effects
    /\ UNCHANGED <<args, i, inputFile, inputFormat, outputFile, outputFormat,
                   gMainParam, request, output, statKind>>

\* lines 98-99: generateOutputData may throw
Encode ==
    /\ pc = "decoded"
    /\ \E ok \in BOOLEAN :
          IF ok
          THEN /\ effects' = Append(effects, "encode")
               /\ pc' = "encoded"
               /\ UNCHANGED err
          ELSE Exit("encodeError") /\ UNCHANGED effects
    /\ UNCHANGED <<args, i, inputFile, inputFormat, outputFile, outputFormat,
                   gMainParam, request, output, statKind>>

\* lines 102 and 191-201: the write is attempted and its callback logs the
\* outcome
Write ==
    /\ pc = "encoded"
    /\ \E ok \in BOOLEAN :
          effects' = Append(effects, IF ok THEN "write success" ELSE "write err")
    /\ pc' = "done"
    /\ UNCHANGED <<args, i, inputFile, inputFormat, outputFile, outputFormat,
                   gMainParam, request, output, err, statKind>>

Next ==
    \/ ParseUsage
    \/ ParseEnter
    \/ ScanOf
    \/ ScanOConcat
    \/ ScanO
    \/ ScanParamEq
    \/ ScanParam
    \/ ScanInput
    \/ ScanV
    \/ ScanInvalid
    \/ ParseReturn
    \/ Resolve
    \/ Read
    \/ Decode
    \/ Encode
    \/ Write

Spec == Init /\ [][Next]_vars

--------------------------------------------------------------------------
(* determineOutputNameAndFormat on its own: the process right after        *)
(* parseArgs returned, for argument lists of the shape                     *)
(* [<file>] [-of <format>] [-o <output>]                                   *)

F_STLB == <<"S","T","L","B">>
F_Amf == <<"A","m","f">>
F_xstlx == <<"x","s","t","l","x">>
P_out_jscad == <<"o","u","t",".","j","s","c","a","d">>
P_out_js == <<"o","u","t",".","j","s">>
P_out_stl == <<"o","u","t",".","s","t","l">>
P_out_dxf == <<"o","u","t",".","d","x","f">>
P_out_svg == <<"o","u","t",".","s","v","g">>
P_out_STL == <<"o","u","t",".","S","T","L">>
P_out == <<"o","u","t">>
P_out_stl_txt == <<"o","u","t",".","s","t","l",".","t","x","t">>
P_a_b_stl == <<"a",".","b",".","s","t","l">>
P_x_json == <<"x",".","j","s","o","n">>
P_model_stl == <<"m","o","d","e","l",".","s","t","l">>
P_m_stl == <<"m",".","s","t","l">>

\* the tokens -of is followed by; Undefined when there is no -of
ResolveFormats ==
    {jscad, js, stl, stla, stlb, amf, dxf, svg,
     F_STLB, F_Amf, F_xstlx, json, T_x3d, T_empty, Undefined}

\* the tokens -o is followed by; Undefined when there is no -o
ResolveOutputFiles ==
    {P_out_jscad, P_out_js, P_out_stl, T_o_amf, P_out_dxf, P_out_svg,
     P_out_STL, P_out, P_out_stl_txt, T_out_unknown, T_empty, Undefined}

\* the input files, each a token parseArgs takes for one; Undefined when
\* the list names none
ResolveInputFiles ==
    {f \in {T_model_jscad, T_m_STL, P_a_b_stl, P_x_json} : Rule(f) = "input"}
    \cup {Undefined}

ArgsFor(ifile, of, ofile) ==
    (IF ifile = Undefined THEN <<>> ELSE <<ifile>>)
    \o (IF of = Undefined THEN <<>> ELSE <<T_of, of>>)
    \o (IF ofile = Undefined THEN <<>> ELSE <<T_o, ofile>>)

\* the state parseArgs leaves on ArgsFor(ifile, of, ofile) when the input
\* file is a regular file
InitResolve ==
    \E ifile \in ResolveInputFiles, of \in ResolveFormats,
       ofile \in ResolveOutputFiles :
        /\ ArgsFor(ifile, of, ofile) # <<>>
        /\ args = ArgsFor(ifile, of, ofile)
        /\ pc = "parsed"
        /\ i = Len(args) + 1
        /\ inputFile = ifile
        /\ inputFormat = (IF ifile = Undefined THEN Undefined ELSE InputCapture(ifile))
        /\ outputFile = ofile
        /\ outputFormat = DefaultOutputFormat(of, ofile)
        /\ gMainParam = EmptyObject
        /\ request = [kind |-> "request",
                      inputFile |-> inputFile,
                      inputFormat |-> inputFormat,
                      outputFile |-> outputFile,
                      outputFormat |-> outputFormat,
                      gMainParam |-> gMainParam]
        /\ output = NoOutput
        /\ err = "none"
        /\ effects = <<>>
        /\ statKind = (IF ifile = Undefined THEN "unseen" ELSE "file")

NextResolve == Resolve

SpecResolve == InitResolve /\ [][NextResolve]_vars

--------------------------------------------------------------------------
(* Properties *)

\* the known output-format tokens
KnownOutputTokens == {jscad, js, stl, stla, stlb, amf, dxf, svg}

\* the text after the last "." of a path, empty when it has no "."
ExtensionOf(path) ==
    IF LastDot(path) = 0 THEN <<>> ELSE From(path, LastDot(path) + 1)

\* path with the text after its last "." replaced by ext
WithExtension(path, ext) == SubSeq(path, 1, LastDot(path)) \o ext

\* the file extension written for a format token
CanonicalExtension(format) == IF format \in {stla, stlb} THEN stl ELSE format

\* determineOutputNameAndFormat has been called
ResolveCalled == request.kind = "request" /\ pc # "parsed"

\* the errors of argument parsing and output resolution
ParseAndResolveErrors ==
    {"usage", "invalidArgument", "cannotOpen", "ENOENT",
     "invalidOutputFile", "invalidOutputFormat"}

\* C1: an argument list without an input file never makes parseArgs return:
\* a returned request has its inputFile and inputFormat set, and resolution
\* and the steps after it run with an input path.
C1_InputRequired ==
    /\ request.kind = "request" =>
          request.inputFile # Undefined /\ request.inputFormat # Undefined
    /\ (output.kind = "output" \/ effects # <<>>) => inputFile # Undefined

\* C2: a returned outputFormat is one of the known output-format tokens
\* (compared as a whole token, letter case aside), and an -of value that is
\* none of them ends in the invalid-output-format error.
C2_KnownFormatOrError ==
    /\ output.kind = "output" =>
          Lowered(output.outputFormat) \in KnownOutputTokens
    /\ (/\ ResolveCalled
        /\ ~Falsy(request.outputFormat)
        /\ Lowered(request.outputFormat) \notin KnownOutputTokens)
       => (pc = "exit" /\ err = "invalidOutputFormat")

\* C3: with an output format override and an output path both given, the
\* override is returned as outputFormat and the path is returned unchanged,
\* whatever the path's extension; the path's extension is never the reason
\* of an error, and an override that is a known token always returns.
C3_OverrideWins ==
    (/\ ResolveCalled
     /\ ~Falsy(request.outputFormat)
     /\ ~Falsy(request.outputFile))
    => /\ err # "invalidOutputFile"
       /\ Lowered(request.outputFormat) \in KnownOutputTokens
             => output.kind = "output"
       /\ output.kind = "output" =>
             /\ output.outputFormat = request.outputFormat
             /\ output.outputFile = request.outputFile

\* C3 witness: -of stlb -o o.amf returned stlb and o.amf
C3_Witness ==
    /\ pc = "resolved"
    /\ request.outputFormat = stlb
    /\ request.outputFile = T_o_amf
    /\ output.outputFormat = stlb
    /\ output.outputFile = T_o_amf

\* C4: a returned request that names an input file has as inputFormat the
\* file's extension in lowercase, one of the supported input extensions,
\* which is the token the input-format handler is looked up by.
C4_LowercaseInputFormat ==
    (request.kind = "request" /\ request.inputFile # Undefined)
    => /\ request.inputFormat = Lowered(ExtensionOf(request.inputFile))
       /\ request.inputFormat \in InputExtensions

C6_DefaultFill ==
    /\ [](request.kind = "request" =>
             ~(Falsy(request.outputFormat) /\ Falsy(request.outputFile)))
    /\ [](pc = "parsed" => ~(Falsy(outputFormat) /\ Falsy(outputFile)))
    /\ []((args = <<T_model_jscad>> /\ output.kind = "output") =>
             (output.outputFile = P_model_stl /\ output.outputFormat = stla))
    /\ [][(request.kind = "none" /\ request'.kind = "request") =>
             /\ request'.outputFile = outputFile
             /\ request'.outputFormat =
                   (IF Falsy(outputFormat) /\ Falsy(outputFile)
                    THEN stla ELSE outputFormat)]_vars

\* C6 witness: model.jscad alone resolved to model.stl and stla
C6_Witness ==
    /\ args = <<T_model_jscad>>
    /\ pc = "resolved"
    /\ request.outputFormat = stla
    /\ request.outputFile = Undefined
    /\ output.outputFile = P_model_stl
    /\ output.outputFormat = stla

C8_DashO ==
    [][Scanning =>
         /\ (/\ Len(args[i]) >= 3
             /\ SubSeq(args[i], 1, 2) = T_o
             /\ args[i] # T_of)
            => (outputFile' = From(args[i], 3) /\ err' = "none")
         /\ (args[i] = T_o /\ i < Len(args) /\ args[i + 1] # <<>>)
            => (outputFile' = args[i + 1] /\ err' = "none")]_vars

\* the index of the first "=" of a token, 0 when it has none
FirstEq(t) ==
    IF \E k \in DOMAIN t : t[k] = "="
    THEN CHOOSE k \in DOMAIN t : t[k] = "=" /\ \A j \in 1..(k-1) : t[j] # "="
    ELSE 0

\* a token of the form --name=value
IsNameEqValue(t) ==
    /\ FirstEq(t) >= 4
    /\ SubSeq(t, 1, 2) = <<"-", "-">>
    /\ \A k \in 3..(FirstEq(t) - 1) : t[k] \in WordChars

\* a token of the form --name
IsName(t) ==
    /\ Len(t) >= 3
    /\ SubSeq(t, 1, 2) = <<"-", "-">>
    /\ \A k \in 3..Len(t) : t[k] \in WordChars

\* C9: scanning --name=value stores value under name; scanning --name
\* followed by a token stores that token under name and skips it, changing
\* nothing else; and --width 5 --depth=3 yields {width: "5", depth: "3"}.
C9_NamedParameters ==
    /\ [][Scanning =>
            /\ IsNameEqValue(args[i]) =>
                  /\ gMainParam' =
                        SetParam(gMainParam,
                                 SubSeq(args[i], 3, FirstEq(args[i]) - 1),
                                 From(args[i], FirstEq(args[i]) + 1))
                  /\ i' = i + 1
            /\ (IsName(args[i]) /\ i < Len(args)) =>
                  /\ gMainParam' =
                        SetParam(gMainParam, From(args[i], 3), args[i + 1])
                  /\ i' = i + 2
                  /\ UNCHANGED <<pc, inputFile, inputFormat, outputFile,
                                 outputFormat, err, statKind>>]_vars
    /\ []((args = <<T_width, T_5, T_depth_3>> /\ request.kind = "request") =>
             /\ DOMAIN request.gMainParam = {<<"w","i","d","t","h">>,
                                             <<"d","e","p","t","h">>}
             /\ request.gMainParam[<<"w","i","d","t","h">>] = T_5
             /\ request.gMainParam[<<"d","e","p","t","h">>] = <<"3">>)

\* C10: an error of argument parsing or output resolution ends the process
\* with nothing read, decoded, encoded or written; an input path that does
\* not exist is such an error; and a process that has ended takes no step.
C10_ErrorsAreTerminal ==
    /\ [](err \in ParseAndResolveErrors => (pc = "exit" /\ effects = <<>>))
    /\ [](statKind = "none" => (err = "ENOENT" /\ pc = "exit" /\ effects = <<>>))
    /\ [](statKind = "dir" => (err = "cannotOpen" /\ pc = "exit" /\ effects = <<>>))
    /\ [][pc # "exit"]_vars

\* C10 witness: the input path did not exist and the process ended there
C10_Witness ==
    /\ statKind = "none"
    /\ inputFile = T_model_jscad
    /\ err = "ENOENT"
    /\ pc = "exit"
    /\ effects = <<>>

====
